---------------------------- MODULE Spec2Model ----------------------------
(***************************************************************************)
(* The Little Man Computer of src/lmc.js (class LMC, lines 3-497): the     *)
(* assembler (load), the execution engine (step, run, reset) and the       *)
(* instruction table.  The LMC object is the record lmc; the inbox and     *)
(* outbox callbacks are the environment.                                   *)
(***************************************************************************)
EXTENDS Integers, Sequences, FiniteSets, TLC

VARIABLES
    lmc,      \* the LMC instance: options, registers, mailboxes, err, ...
    last,     \* the last call made on the instance: what it returned and sent
              \* to the outbox, and the state it found (step, reset) or made
              \* (new, load)
    log,      \* ReadmeSpec only: the step() calls made since the last load
    running   \* ApiSpec only: a call of run() is in its loop

vars == <<lmc, last, log, running>>

(***************************************************************************)
(* Bounds of the model.                                                    *)
(***************************************************************************)
MaxCalls == 6

(***************************************************************************)
(* Program constants.                                                      *)
(***************************************************************************)
null == -1           \* the opcode of DAT; also "no line" in err
MailboxCount == 100
ValueLimit == 1000

\* What the inbox callback returns: <<v>> for the number v, undefined when no
\* input is available.
undefined == <<>>
number(v) == <<v>>

(***************************************************************************)
(* LMC.intmod: JavaScript's % takes the sign of the dividend.              *)
(***************************************************************************)
jsRemainder(a, b) == IF a >= 0 THEN a % b ELSE -((-a) % b)

\* The remainder alone, without adding end: negative for a negative val.
intmodTruncating(val, end) == jsRemainder(val, end)
intmod(val, end) == (jsRemainder(val, end) + end) % end

(***************************************************************************)
(* The instruction table (LMC.mnemonics, LMC.instructions): built with     *)
(* Object.fromEntries, so of two entries with the same key the last wins.  *)
(***************************************************************************)
instructionList == <<
    [mnemonic |-> "DAT", opcode |-> null, arg |-> -1],
    [mnemonic |-> "COB", opcode |-> 0,    arg |-> 0],
    [mnemonic |-> "HLT", opcode |-> 0,    arg |-> 0],
    [mnemonic |-> "ADD", opcode |-> 100,  arg |-> 1],
    [mnemonic |-> "SUB", opcode |-> 200,  arg |-> 1],
    [mnemonic |-> "STO", opcode |-> 300,  arg |-> 1],
    [mnemonic |-> "STA", opcode |-> 300,  arg |-> 1],
    [mnemonic |-> "LDA", opcode |-> 500,  arg |-> 1],
    [mnemonic |-> "BR",  opcode |-> 600,  arg |-> 1],
    [mnemonic |-> "BRA", opcode |-> 600,  arg |-> 1],
    [mnemonic |-> "BRZ", opcode |-> 700,  arg |-> 1],
    [mnemonic |-> "BRP", opcode |-> 800,  arg |-> 1],
    [mnemonic |-> "IN",  opcode |-> 901,  arg |-> 0],
    [mnemonic |-> "INP", opcode |-> 901,  arg |-> 0],
    [mnemonic |-> "OUT", opcode |-> 902,  arg |-> 0],
    [mnemonic |-> "OTC", opcode |-> 922,  arg |-> 0] >>

lastIndex(S) == CHOOSE i \in S : \A j \in S : j <= i

hasMnemonic(name) == \E i \in DOMAIN instructionList : instructionList[i].mnemonic = name
mnemonics(name) ==
    instructionList[lastIndex({i \in DOMAIN instructionList : instructionList[i].mnemonic = name})]

\* LMC.instructions[value] for a number: the DAT entry has the key "null".
hasInstruction(value) ==
    \E i \in DOMAIN instructionList :
        instructionList[i].opcode = value /\ instructionList[i].opcode # null
instructions(value) ==
    instructionList[lastIndex({i \in DOMAIN instructionList : instructionList[i].opcode = value})]

DAT == mnemonics("DAT")

\* The methods of LMC named by a number: this[opcode] exists.
methods == {0, 100, 200, 300, 500, 600, 700, 800, 901, 902, 922}

(***************************************************************************)
(* disassemble(value, isCode): the syntax a mailbox value is shown and     *)
(* executed as.                                                            *)
(***************************************************************************)
\* A disassemble that takes the syntax of the hundred whatever its arg.
disassembleByHundred(options, value, isCode) ==
    LET group == value - (value % 100)
        syntax ==
            IF isCode /\ hasInstruction(value) THEN instructions(value)
            ELSE IF isCode /\ hasInstruction(group) THEN instructions(group)
                 ELSE DAT
        argument == IF syntax.arg # 0
                    THEN value - (IF syntax.opcode = null THEN 0 ELSE syntax.opcode)
                    ELSE null
        isSloppy == isCode /\ syntax.arg = 0 /\ options.strictOpcode /\ syntax.opcode # value
    IN  [mnemonic |-> syntax.mnemonic, opcode |-> syntax.opcode, arg |-> syntax.arg,
         argument |-> argument, isSloppy |-> isSloppy]
disassemble(options, value, isCode) ==
    LET group == value - (value % 100)
        syntax ==
            IF isCode /\ hasInstruction(value) THEN instructions(value)
            ELSE IF isCode /\ hasInstruction(group) /\ instructions(group).arg # 0
                 THEN instructions(group)
                 ELSE DAT
        argument == IF syntax.arg # 0
                    THEN value - (IF syntax.opcode = null THEN 0 ELSE syntax.opcode)
                    ELSE null
        isSloppy == isCode /\ syntax.arg = 0 /\ options.strictOpcode /\ syntax.opcode # value
    IN  [mnemonic |-> syntax.mnemonic, opcode |-> syntax.opcode, arg |-> syntax.arg,
         argument |-> argument, isSloppy |-> isSloppy]

(***************************************************************************)
(* Mailboxes.  A mailbox is [value, isCode, lineNo]; its mnemonic, opcode  *)
(* and isSloppy are recomputed by disassemble whenever value or isCode     *)
(* changes, so they are functions of (value, isCode).  Mailbox address a   *)
(* is mailboxes[a + 1].                                                    *)
(***************************************************************************)
length(m) == Len(m.mailboxes)

\* createMailbox() without arguments: a new token line "DAT" at the end of
\* tokens, and its mailbox, which holds 0 and is data.
createMailbox(lineNo) == [value |-> 0, isCode |-> FALSE, lineNo |-> lineNo]

\* ensureMailbox(address): while (address >= mailboxes.length) createMailbox().
ensureMailbox(m, address) ==
    IF address >= length(m)
    THEN LET missing == address + 1 - length(m)
         IN  [m EXCEPT !.tokensLength = @ + missing,
                       !.mailboxes = @ \o [k \in 1 .. missing |->
                                              createMailbox(m.tokensLength + k - 1)]]
    ELSE m

\* mailbox.executable(): a mailbox that is not code becomes code, and its
\* value is assigned to itself through the setter, which wraps it.
executable(m, address) ==
    IF m.mailboxes[address + 1].isCode THEN m
    ELSE [m EXCEPT !.mailboxes[address + 1].isCode = TRUE,
                   !.mailboxes[address + 1].value = intmod(@, ValueLimit)]

\* getMailbox(address) is ensureMailbox(address % 100).value: the state after
\* the call, and the value returned.
getMailbox(m, address) == ensureMailbox(m, address % MailboxCount)
mailboxValue(m, address) ==
    getMailbox(m, address).mailboxes[(address % MailboxCount) + 1].value

setMailbox(m, address, value) ==
    [ensureMailbox(m, address % MailboxCount)
        EXCEPT !.mailboxes[(address % MailboxCount) + 1].value = intmod(value, ValueLimit)]

(***************************************************************************)
(* Register setters.                                                       *)
(***************************************************************************)
\* An accumulator setter that leaves the flag as it is.
setAccumulatorKeepingFlag(m, value) ==
    [m EXCEPT !.isAccUndefined = FALSE,
              !.accumulator = intmod(value, ValueLimit)]
setAccumulator(m, value) ==
    [m EXCEPT !.flag = FALSE,
              !.isAccUndefined = FALSE,
              !.accumulator = intmod(value, ValueLimit)]

setProgramCounter(m, next) ==
    [m EXCEPT !.programCounter = intmod(next, MailboxCount),
              !.programCounterOverflowed = (intmod(next, MailboxCount) # next)]

(***************************************************************************)
(* The instructions.                                                       *)
(***************************************************************************)
Message(text, value) == [text |-> text, value |-> value]
noError == [lineNo |-> null, msg |-> Message("", null)]

\* A HLT that leaves the program counter where the fetch put it.
HLTAdvanced(m) == m
HLT(m) == setProgramCounter(m, m.programCounter - 1)

error(m, msg) ==
    LET halted == HLT(m)
    IN  [halted EXCEPT !.err = [lineNo |-> halted.mailboxes[halted.programCounter + 1].lineNo,
                                msg |-> msg]]

undefinedUse(m) == m.options.stopWhenUndefined /\ m.isAccUndefined
failWhenUndefined(m) ==
    IF undefinedUse(m)
    THEN error(m, Message("Accumulator does not have reliable value.", null))
    ELSE m

\* Variants of addValue: one assigns through the accumulator's setter, one
\* sets the flag on every overflow, one sets it on underflow only when
\* setFlagOnOverflow is enabled.
addValueClearing(m, delta) ==
    IF undefinedUse(m) THEN failWhenUndefined(m)
    ELSE setAccumulator(m, m.accumulator + delta)
addValueAlwaysFlag(m, delta) ==
    IF undefinedUse(m) THEN failWhenUndefined(m)
    ELSE LET value == m.accumulator + delta
         IN  [m EXCEPT
                !.flag = IF value < 0 \/ value > 999 THEN TRUE ELSE @,
                !.isAccUndefined = IF value < 0 \/ value > 999 THEN TRUE ELSE @,
                !.accumulator = intmod(value, ValueLimit)]
addValueFlagOnOption(m, delta) ==
    IF undefinedUse(m) THEN failWhenUndefined(m)
    ELSE LET value == m.accumulator + delta
         IN  [m EXCEPT
                !.flag = IF (value < 0 \/ value > 999) /\ m.options.setFlagOnOverflow
                         THEN TRUE ELSE @,
                !.isAccUndefined = IF value < 0 \/ value > 999 THEN TRUE ELSE @,
                !.accumulator = intmod(value, ValueLimit)]
\* An addValue that stops at 0 and at 999 instead of wrapping around.
addValueClamping(m, delta) ==
    IF undefinedUse(m) THEN failWhenUndefined(m)
    ELSE LET value == m.accumulator + delta
         IN  [m EXCEPT
                !.flag = IF value < 0 \/ (value > 999 /\ m.options.setFlagOnOverflow)
                         THEN TRUE ELSE @,
                !.isAccUndefined = IF value < 0 \/ value > 999 THEN TRUE ELSE @,
                !.accumulator = IF value < 0 THEN 0 ELSE IF value > 999 THEN 999 ELSE value]
addValue(m, delta) ==
    IF undefinedUse(m) THEN failWhenUndefined(m)
    ELSE LET value == m.accumulator + delta
         IN  [m EXCEPT
                !.flag = IF value < 0 \/ (value > 999 /\ m.options.setFlagOnOverflow)
                         THEN TRUE ELSE @,
                !.isAccUndefined = IF value < 0 \/ value > 999 THEN TRUE ELSE @,
                !.accumulator = intmod(value, ValueLimit)]

ADD(m, instruction) == addValue(getMailbox(m, instruction), mailboxValue(m, instruction))
SUB(m, instruction) == addValue(getMailbox(m, instruction), -mailboxValue(m, instruction))
STA(m, instruction) ==
    IF undefinedUse(m) THEN failWhenUndefined(m)
    ELSE setMailbox(m, instruction, m.accumulator)
LDA(m, instruction) == setAccumulator(getMailbox(m, instruction), mailboxValue(m, instruction))
BRA(m, instruction) == setProgramCounter(m, instruction % 100)
\* A BRZ that never looks at the flag.
BRZIgnoringFlag(m, instruction) ==
    IF undefinedUse(m) THEN failWhenUndefined(m)
    ELSE IF m.accumulator = 0 THEN BRA(m, instruction) ELSE m
\* A BRZ that needs a cleared flag whatever the option says.
BRZNeedingClearedFlag(m, instruction) ==
    IF undefinedUse(m) THEN failWhenUndefined(m)
    ELSE IF m.accumulator = 0 /\ ~m.flag THEN BRA(m, instruction) ELSE m
BRZ(m, instruction) ==
    IF undefinedUse(m) THEN failWhenUndefined(m)
    ELSE IF m.accumulator = 0 /\ ~(m.options.zeroNeedsClearedFlag /\ m.flag)
         THEN BRA(m, instruction)
         ELSE m
\* A BRP that also needs a reliable accumulator.
BRPOnAccumulator(m, instruction) ==
    IF ~m.flag /\ ~m.isAccUndefined THEN BRA(m, instruction) ELSE m
BRP(m, instruction) == IF ~m.flag THEN BRA(m, instruction) ELSE m
INP(m, inputValue) ==
    IF inputValue = undefined THEN HLT(m) ELSE setAccumulator(m, inputValue[1])
\* OUT and OTC: the state after, and what the outbox callback receives.
sendsOutput(m) == ~undefinedUse(m)
OUT(m) == failWhenUndefined(m)
OTC(m) == failWhenUndefined(m)
character(code) == <<"char", code>>

\* this[opcode](value)
execute(m, opcode, value, inputValue) ==
    CASE opcode = 0   -> HLT(m)
      [] opcode = 100 -> ADD(m, value)
      [] opcode = 200 -> SUB(m, value)
      [] opcode = 300 -> STA(m, value)
      [] opcode = 500 -> LDA(m, value)
      [] opcode = 600 -> BRA(m, value)
      [] opcode = 700 -> BRZ(m, value)
      [] opcode = 800 -> BRP(m, value)
      [] opcode = 901 -> INP(m, inputValue)
      [] opcode = 902 -> OUT(m)
      [] opcode = 922 -> OTC(m)

output(m, opcode) ==
    IF opcode = 902 /\ sendsOutput(m) THEN <<m.accumulator>>
    ELSE IF opcode = 922 /\ sendsOutput(m) THEN <<character(m.accumulator)>>
    ELSE <<>>

(***************************************************************************)
(* step(): the state after the call.  fetched(m) is the mailbox the call   *)
(* fetches; a fetch from a mailbox that does not exist throws, after the   *)
(* program counter was incremented.                                        *)
(***************************************************************************)
throws(m) == m.programCounter >= length(m)

fetch(m) == executable(setProgramCounter(m, m.programCounter + 1), m.programCounter)

\* The value and the syntax of the mailbox the program counter points at.
fetched(m) == fetch(m).mailboxes[m.programCounter + 1].value
decoded(m) == disassemble(m.options, fetched(m), TRUE)
isInvalid(syntax) == syntax.opcode \notin methods \/ syntax.isSloppy

\* An overflow check that no option switches off.
checkOverflowAlways(m) ==
    IF m.programCounterOverflowed
    THEN error(m, Message("Program counter exceeded 99.", null))
    ELSE m
checkOverflow(m) ==
    IF m.programCounterOverflowed /\ m.options.forbidProgramCounterOverflow
    THEN error(m, Message("Program counter exceeded 99.", null))
    ELSE m

finish(m) == executable(ensureMailbox(m, m.programCounter), m.programCounter)

step(m, inputValue) ==
    IF throws(m) THEN setProgramCounter(m, m.programCounter + 1)
    ELSE LET syntax == decoded(m)
             executed == IF isInvalid(syntax)
                         THEN error(fetch(m), Message("Invalid instruction ", fetched(m)))
                         ELSE execute(fetch(m), syntax.opcode, fetched(m), inputValue)
         IN  finish(checkOverflow(executed))

\* What step() returns: pc !== this._programCounter.
returned(m, next) ==
    IF throws(m) THEN "throw"
    ELSE IF m.programCounter # next.programCounter THEN "true" ELSE "false"

\* What the call passes to the outbox.
sent(m) ==
    IF throws(m) \/ isInvalid(decoded(m)) THEN <<>>
    ELSE output(fetch(m), decoded(m).opcode)

\* Whether the call asks the inbox for a value.
readsInbox(m) == ~throws(m) /\ decoded(m).opcode = 901

\* A reset that leaves err alone.
resetKeepingErr(m) == setProgramCounter(m, 0)
reset(m) == [setProgramCounter(m, 0) EXCEPT !.err = noError]


(***************************************************************************)
(* Source lines.  LMC.regex splits a line into its groups; a line here is  *)
(* what the regex matched: label, mnemonic, argument (the digits of a      *)
(* number, or the name of a label it refers to), badArgument ("absent",    *)
(* "missing" for the empty match, "invalid" for a non-empty one) and bad   *)
(* (unexpected text after the instruction).                                *)
(***************************************************************************)
Line(label, mnemonic, digits, ref) ==
    [label |-> label, mnemonic |-> mnemonic, digits |-> digits, ref |-> ref,
     badArgument |-> "absent", bad |-> FALSE]

blank == Line("", "", <<>>, "")

hasArgument(line) == line.digits # <<>> \/ line.ref # ""

\* isNaN(argument): the argument is a name, not a number.
isReference(line) == line.ref # ""

\* String.prototype.toUpperCase on the names the programs use.
toUpperCase(text) ==
    CASE text = "one" -> "ONE"
      [] text = "two" -> "TWO"
      [] text = "Two" -> "TWO"
      [] text = "inp" -> "INP"
      [] text = "dat" -> "DAT"
      [] text = "far" -> "FAR"
      [] text = "loop" -> "LOOP"
      [] text = "Loop" -> "LOOP"
      [] text = "nowhere" -> "NOWHERE"
      [] text = "sta" -> "STA"
      [] text = "brz" -> "BRZ"
      [] text = "cob" -> "COB"
      [] OTHER -> text

\* +argument: the number a string of digits denotes.
RECURSIVE Number(_)
Number(digits) ==
    IF digits = <<>> THEN 0
    ELSE 10 * Number(SubSeq(digits, 1, Len(digits) - 1)) + digits[Len(digits)]

(***************************************************************************)
(* load, first loop: addresses and label definitions.  The loop runs over  *)
(* the lines in order; what it has done before line n (lines are numbered  *)
(* from 1 here, lineNo is n - 1):                                          *)
(***************************************************************************)
tooLarge == Message("Program is too large to fit in the 100 mailboxes.", null)

emits(line) == line.mnemonic # "" \/ hasArgument(line)

\* address when the loop reaches line n: one per earlier line that emits.
addressAt(lines, n) == Cardinality({k \in 1 .. (n - 1) : emits(lines[k])})

\* symbolTable when the loop reaches line n: a later definition overwrites.
definedBefore(lines, n) == {toUpperCase(lines[k].label) : k \in {j \in 1 .. (n - 1) : lines[j].label # ""}}
symbolTableAt(lines, n) ==
    [name \in definedBefore(lines, n) |->
        addressAt(lines, lastIndex({k \in 1 .. (n - 1) :
                                      lines[k].label # "" /\ toUpperCase(lines[k].label) = name}))]

\* A duplicate check on the address found instead of on the key: address 0 passes.
isDefinedTwiceTruthy(lines, n) ==
    /\ lines[n].label # ""
    /\ toUpperCase(lines[n].label) \in definedBefore(lines, n)
    /\ symbolTableAt(lines, n)[toUpperCase(lines[n].label)] # 0
\* labelUpper in this.symbolTable, when the loop reaches line n.
isDefinedTwice(lines, n) ==
    /\ lines[n].label # ""
    /\ toUpperCase(lines[n].label) \in definedBefore(lines, n)

\* A first loop without the check of the address against the 100 mailboxes.
collectWithoutLimit(lines, n) ==
    LET line == lines[n]
        unexpected == IF line.bad THEN Message("Unexpected", null) ELSE Message("", null)
        badArg == IF line.badArgument = "invalid" THEN Message("Invalid argument", null)
                  ELSE IF line.badArgument = "missing" THEN Message("Missing argument", null)
                  ELSE unexpected
        bad == IF isDefinedTwice(lines, n)
               THEN Message("cannot be defined twice", null)
               ELSE badArg
    IN  [line |-> line, bad |-> bad,
         address |-> IF emits(line) THEN addressAt(lines, n) ELSE null]
\* The token of line n after the first loop.
collect(lines, n) ==
    LET line == lines[n]
        unexpected == IF line.bad THEN Message("Unexpected", null) ELSE Message("", null)
        badArg == IF line.badArgument = "invalid" THEN Message("Invalid argument", null)
                  ELSE IF line.badArgument = "missing" THEN Message("Missing argument", null)
                  ELSE unexpected
        bad == IF isDefinedTwice(lines, n)
               THEN Message("cannot be defined twice", null)
               ELSE badArg
        overflow == (line.label # "" \/ emits(line)) /\ addressAt(lines, n) >= MailboxCount
    IN  IF overflow
        THEN [line |-> blank, bad |-> tooLarge, address |-> null]
        ELSE [line |-> line, bad |-> bad,
              address |-> IF emits(line) THEN addressAt(lines, n) ELSE null]

collectAll(lines) == [n \in 1 .. Len(lines) |-> collect(lines, n)]

(***************************************************************************)
(* assemble(mnemonic, argument): the value and classification of a line.   *)
(***************************************************************************)
\* A lookup of the reference as written, not in upper case.
resolveAsWritten(symbolTable, line) ==
    IF isReference(line)
    THEN IF line.ref \in DOMAIN symbolTable THEN symbolTable[line.ref] ELSE 0
    ELSE Number(line.digits)
resolve(symbolTable, line) ==
    IF isReference(line)
    THEN IF toUpperCase(line.ref) \in DOMAIN symbolTable
         THEN symbolTable[toUpperCase(line.ref)] ELSE 0
    ELSE Number(line.digits)

\* An assemble that leaves the argument out of the value.
assembleWithoutArgument(symbolTable, line) ==
    LET mnemonic == toUpperCase(line.mnemonic)
        opcode == mnemonics(IF mnemonic = "" THEN "DAT" ELSE mnemonic).opcode
    IN  [value |-> IF opcode = null THEN 0 ELSE opcode,
         isCode |-> mnemonic # "DAT" /\ opcode # null]
assemble(symbolTable, line) ==
    LET mnemonic == toUpperCase(line.mnemonic)
        opcode == mnemonics(IF mnemonic = "" THEN "DAT" ELSE mnemonic).opcode
        value == (IF opcode = null THEN 0 ELSE opcode) + resolve(symbolTable, line)
        group == value - (value % 100)
        syntax == IF hasInstruction(value) THEN instructions(value)
                  ELSE IF hasInstruction(group) /\ instructions(group).arg # 0
                       THEN instructions(group)
                       ELSE DAT
        isCode == mnemonic # "DAT" /\ syntax # DAT
                  /\ (syntax.arg # 0 \/ syntax.opcode = value)
    IN  [value |-> value, isCode |-> isCode]

(***************************************************************************)
(* load, second loop: resolve the references and fill the mailboxes, one   *)
(* for each token that has an address, in the order of the lines.          *)
(***************************************************************************)
resolved(symbolTable, token) ==
    IF /\ token.address # null
       /\ token.bad.text = ""
       /\ isReference(token.line)
       /\ toUpperCase(token.line.ref) \notin DOMAIN symbolTable
    THEN [token EXCEPT !.bad = Message("Undefined label", null)]
    ELSE token

fill(symbolTable, tokens) ==
    LET addressed == {n \in DOMAIN tokens : tokens[n].address # null}
        lineOf(address) == CHOOSE n \in addressed : tokens[n].address = address
    IN  [a \in 1 .. Cardinality(addressed) |->
            LET assembled == assemble(symbolTable, tokens[lineOf(a - 1)].line)
            IN  [value |-> assembled.value, isCode |-> assembled.isCode,
                 lineNo |-> lineOf(a - 1) - 1]]

\* The last line with a bad token instead of the first.
lastBad(tokens) ==
    LET badLines == {n \in DOMAIN tokens : tokens[n].bad.text # ""}
    IN  IF badLines = {} THEN noError
        ELSE LET n == CHOOSE k \in badLines : \A j \in badLines : k >= j
             IN  [lineNo |-> n - 1, msg |-> tokens[n].bad]
\* The first line with a bad token, as err; noError when there is none.
firstBad(tokens) ==
    LET badLines == {n \in DOMAIN tokens : tokens[n].bad.text # ""}
    IN  IF badLines = {} THEN noError
        ELSE LET n == CHOOSE k \in badLines : \A j \in badLines : k <= j
             IN  [lineNo |-> n - 1, msg |-> tokens[n].bad]

\* What load computes from the lines of a program.
image(lines) ==
    LET symbolTable == symbolTableAt(lines, Len(lines) + 1)
        scanned == collectAll(lines)
        tokens == [n \in DOMAIN scanned |-> resolved(symbolTable, scanned[n])]
    IN  [mailboxes |-> fill(symbolTable, scanned),
         symbolTable |-> symbolTable,
         tokensLength |-> Len(tokens),
         err |-> firstBad(tokens)]

\* A load that does not reset the accumulator.
loadKeepingAccumulator(m, program, assembled) ==
    [m EXCEPT !.program = program,
              !.mailboxes = assembled.mailboxes,
              !.symbolTable = assembled.symbolTable,
              !.tokensLength = assembled.tokensLength,
              !.flag = FALSE,
              !.programCounter = 0,
              !.err = assembled.err]
\* load(program): clears the mailboxes and err, assembles, resets the registers.
load(m, program, assembled) ==
    [m EXCEPT !.program = program,
              !.mailboxes = assembled.mailboxes,
              !.symbolTable = assembled.symbolTable,
              !.tokensLength = assembled.tokensLength,
              !.accumulator = 0,
              !.flag = FALSE,
              !.programCounter = 0,
              !.err = assembled.err]

(***************************************************************************)
(* The programs loaded.  README.md's example, an empty text, and probes:   *)
(* an instruction x executed first (pre = "none"), or after INP and an ADD *)
(* or SUB (pre = "ADD", "SUB"), at a low address or in mailbox 99.         *)
(***************************************************************************)
Probed == {"HLT", "ADD", "SUB", "STA", "LDA", "BRA", "BRZ", "BRP", "INP", "OUT", "OTC",
           "400", "5"}

probeLine(x) ==
    CASE x = "HLT" -> Line("", "HLT", <<>>, "")
      [] x = "ADD" -> Line("", "ADD", <<>>, "two")
      [] x = "SUB" -> Line("", "SUB", <<>>, "one")
      [] x = "STA" -> Line("", "STA", <<7>>, "")
      [] x = "LDA" -> Line("", "LDA", <<>>, "Two")
      [] x = "BRA" -> Line("", "BRA", <<6>>, "")
      [] x = "BRZ" -> Line("", "BRZ", <<6>>, "")
      [] x = "BRP" -> Line("", "BRP", <<6>>, "")
      [] x = "INP" -> Line("", "inp", <<>>, "")
      [] x = "OUT" -> Line("", "OUT", <<>>, "")
      [] x = "OTC" -> Line("", "OTC", <<>>, "")
      [] x = "400" -> Line("", "", <<4, 0, 0>>, "")
      [] x = "5"   -> Line("", "", <<5>>, "")

Program(kind, pre, x, high) == [kind |-> kind, pre |-> pre, x |-> x, high |-> high]

readme == Program("readme", "none", "HLT", FALSE)
far == Program("far", "none", "BRP", FALSE)
empty == Program("empty", "none", "HLT", FALSE)
self == Program("self", "none", "BRA", FALSE)

Reloads == {readme, empty, Program("probe", "none", "OUT", FALSE)}

Programs ==
    {readme, empty, far, self}
    \cup {Program("probe", pre, x, FALSE) : pre \in {"none", "ADD", "SUB"}, x \in Probed}
    \cup {Program("probe", "SUB", x, TRUE) : x \in Probed}

data == << Line("", "HLT", <<>>, ""),
           Line("one", "DAT", <<1>>, ""),
           Line("two", "dat", <<2>>, "") >>

head(pre) ==
    IF pre = "none" THEN <<>>
    ELSE << Line("", "INP", <<>>, ""),
            Line("", pre, <<>>, IF pre = "ADD" THEN "two" ELSE "one") >>

lines(program) ==
    CASE program.kind = "readme" ->
            << Line("", "INP", <<>>, ""), Line("", "STA", <<2, 0>>, ""),
               Line("", "OUT", <<>>, ""), Line("", "HLT", <<>>, "") >>
      [] program.kind = "empty" -> << blank >>
      [] program.kind = "self" -> << Line("", "BRA", <<0>>, "") >>
      [] program.kind = "far" ->
            << Line("", "BRP", <<>>, "far") >>
            \o [i \in 1 .. 199 |-> Line("", "DAT", <<>>, "")]
            \o << Line("far", "DAT", <<>>, "") >>
      [] program.kind = "probe" /\ ~program.high ->
            head(program.pre) \o << probeLine(program.x) >> \o data
      [] program.kind = "probe" /\ program.high ->
            head(program.pre) \o << Line("", "BRA", <<9, 9>>, "") >> \o data
            \o [i \in 1 .. (95 - Len(head(program.pre))) |-> Line("", "DAT", <<>>, "")]
            \o << probeLine(program.x) >>

\* The image of every program, computed once.
images == [program \in Programs |-> image(lines(program))]

(***************************************************************************)
(* The environment: what the inbox callback may return.                    *)
(***************************************************************************)
Inputs == {-1, 0, 1, 7, 998}

(***************************************************************************)
(* The state after new LMC(inbox, outbox, options).                        *)
(***************************************************************************)
Options == [setFlagOnOverflow : BOOLEAN, zeroNeedsClearedFlag : BOOLEAN,
            stopWhenUndefined : BOOLEAN, forbidProgramCounterOverflow : BOOLEAN,
            strictOpcode : BOOLEAN]

defaults == [setFlagOnOverflow |-> TRUE, zeroNeedsClearedFlag |-> TRUE,
             stopWhenUndefined |-> TRUE, forbidProgramCounterOverflow |-> TRUE,
             strictOpcode |-> TRUE]

constructor(options) ==
    [options |-> options,
     flag |-> FALSE,
     accumulator |-> 0,
     programCounter |-> 0,
     programCounterOverflowed |-> FALSE,
     mailboxes |-> <<>>,
     err |-> noError,
     isAccUndefined |-> TRUE,
     program |-> empty,
     symbolTable |-> <<>>,
     tokensLength |-> 0]

Call(name, before, input, result, values) ==
    [call |-> name, before |-> before, input |-> input, returned |-> result,
     sent |-> values]

Init ==
    /\ \E options \in Options : lmc = constructor(options)
    /\ last = Call("new", lmc, undefined, "none", <<>>)
    /\ log = <<>>
    /\ running = FALSE

isFresh(m) == m.tokensLength = 0

Loading(program) ==
    /\ lmc' = load(lmc, program, images[program])
    /\ last' = Call("load", lmc', undefined,
                    IF lmc'.err = noError THEN "true" ELSE "false", <<>>)

Stepping(inputValue) ==
    /\ inputValue = undefined \/ readsInbox(lmc)
    /\ LET next == step(lmc, inputValue)
       IN  /\ lmc' = next
           /\ last' = Call("step", lmc, inputValue, returned(lmc, next), sent(lmc))

\* Any program is loaded into a new machine, and those of Reloads over
\* another program.
Load(program) ==
    /\ isFresh(lmc) \/ program \in Reloads
    /\ Loading(program)
    /\ UNCHANGED <<log, running>>

Step(inputValue) ==
    /\ Stepping(inputValue)
    /\ UNCHANGED <<log, running>>

InboxReturns == {number(v) : v \in Inputs} \cup {undefined}

Next ==
    \/ \E program \in Programs : Load(program)
    \/ \E inputValue \in InboxReturns : Step(inputValue)

Spec == Init /\ [][Next]_vars

(***************************************************************************)
(* ApiSpec: any sequence of load, step, run and reset calls, on the        *)
(* programs of ApiPrograms.  run() is while (this.step()) {}: the call     *)
(* stays in its loop, where nothing else is called, until a step does not  *)
(* return true.                                                            *)
(***************************************************************************)
ApiPrograms ==
    {readme, empty, far, self,
     Program("probe", "none", "LDA", FALSE), Program("probe", "none", "OUT", FALSE),
     Program("probe", "SUB", "STA", FALSE), Program("probe", "ADD", "BRZ", FALSE),
     Program("probe", "SUB", "INP", TRUE)}

ApiLoad(program) ==
    /\ ~running
    /\ Loading(program)
    /\ UNCHANGED <<log, running>>

ApiStep(inputValue) ==
    /\ ~running
    /\ Stepping(inputValue)
    /\ UNCHANGED <<log, running>>

Reset ==
    /\ ~running
    /\ lmc' = reset(lmc)
    /\ last' = Call("reset", lmc, undefined, "none", <<>>)
    /\ UNCHANGED <<log, running>>

Run ==
    /\ ~running
    /\ running' = TRUE
    /\ last' = Call("run", lmc, undefined, "none", <<>>)
    /\ UNCHANGED <<lmc, log>>

RunStep(inputValue) ==
    /\ running
    /\ Stepping(inputValue)
    /\ running' = (last'.returned = "true")
    /\ UNCHANGED log

ApiNext ==
    \/ \E program \in ApiPrograms : ApiLoad(program)
    \/ \E inputValue \in InboxReturns : ApiStep(inputValue)
    \/ Reset
    \/ Run
    \/ \E inputValue \in InboxReturns : RunStep(inputValue)

ApiSpec == Init /\ [][ApiNext]_vars

(***************************************************************************)
(* ReadmeSpec: README.md's example program, with every step() call since   *)
(* the load logged.                                                        *)
(***************************************************************************)
LoadReadme ==
    /\ Loading(readme)
    /\ log' = <<>>
    /\ UNCHANGED running

LoggedStep(inputValue) ==
    /\ Len(log) < MaxCalls
    /\ Stepping(inputValue)
    /\ log' = Append(log, [input |-> last'.input, returned |-> last'.returned,
                           sent |-> last'.sent])
    /\ UNCHANGED running

ReadmeNext ==
    \/ LoadReadme
    \/ \E inputValue \in InboxReturns : LoggedStep(inputValue)

ReadmeSpec == Init /\ [][ReadmeNext]_vars

(***************************************************************************)
(* LmcGui extends LMC: the machine with the field _state, written state    *)
(* here.  The editor calls parse(text) on every display of its text; while *)
(* the state is EDITING its text is this.program, the text last loaded.    *)
(* running is here the timer of runAnimation.                              *)
(***************************************************************************)
RUNNING == 1
PAUSED == 2
EDITING == 3

\* set state(toState)
setState(m, toState) == [m EXCEPT !.state = toState]

\* The machine that super(inbox, outbox, options) makes, with this._state.
guiConstructor(options) == constructor(options) @@ [state |-> EDITING]

\* A parse that loads the text in every state.
parseAlways(m, text) == load(m, text, images[text])
parse(m, text) == IF m.state = EDITING THEN load(m, text, images[text]) ELSE m

\* displayStatus(): editor.load in state RUNNING and editor.displayFormatted
\* both end in parse.
displayStatus(m) == parse(m, m.program)

\* Whether the step() call runs super.step().
callsSuper(m) == m.err = noError /\ m.state # EDITING

\* LmcGui.step(), next being the machine after super.step(); when super.step()
\* throws, the call ends there.
guiStep(m, next) ==
    IF m.err # noError THEN displayStatus(m)
    ELSE IF m.state = EDITING THEN displayStatus(setState(m, RUNNING))
    ELSE IF throws(m) THEN setState(next, RUNNING)
    ELSE displayStatus(setState(next, IF returned(m, next) = "false" THEN PAUSED ELSE RUNNING))

\* What the super.step() of the call returns and sends.
guiReturned(m, next) == IF callsSuper(m) THEN returned(m, next) ELSE "none"
guiSent(m) == IF callsSuper(m) THEN sent(m) ELSE <<>>

\* LmcGui.run(delay): a step, and PAUSED after it when there is no delay.
guiRun(m, delay, next) ==
    IF delay = 0 /\ guiReturned(m, next) # "throw"
    THEN setState(guiStep(m, next), PAUSED)
    ELSE guiStep(m, next)

\* LmcGui.reset()
guiReset(m) ==
    LET cleared == reset(m)
    IN  displayStatus(IF cleared.state = RUNNING THEN setState(cleared, PAUSED) ELSE cleared)

\* LmcGui.load(program)
guiLoad(m, program) == guiReset(parse(setState(m, EDITING), program))

GuiPrograms ==
    {readme, empty, far,
     Program("probe", "none", "OUT", FALSE), Program("probe", "SUB", "INP", TRUE)}

Delays == {0, 1, 400}

\* new LmcGui(container, options): the program of the container is loaded.
GuiOptions ==
    {options \in Options :
        options.strictOpcode /\ options.zeroNeedsClearedFlag /\ options.setFlagOnOverflow}

GuiInit ==
    /\ \E options \in GuiOptions, program \in GuiPrograms :
          lmc = guiLoad(guiConstructor(options), program)
    /\ last = Call("new", lmc, undefined, "none", <<>>)
    /\ log = <<>>
    /\ running = FALSE

\* What the inbox of the GUI returns: the number that parseInt makes of one to
\* three digits of the input field, or nothing when the field has none.
GuiInboxReturns == {number(v) : v \in Inputs \cap (0 .. 999)} \cup {undefined}

takes(m, inputValue) == inputValue = undefined \/ (callsSuper(m) /\ readsInbox(m))

GuiStep(inputValue) ==
    /\ takes(lmc, inputValue)
    /\ \E next \in {step(lmc, inputValue)} :
          /\ lmc' = guiStep(lmc, next)
          /\ last' = Call("step", lmc, inputValue, guiReturned(lmc, next), guiSent(lmc))
    /\ UNCHANGED <<log, running>>

\* The Run, Walk and Step buttons, F8, and Enter in the input field.
GuiRun(delay, inputValue) ==
    /\ takes(lmc, inputValue)
    /\ \E next \in {step(lmc, inputValue)} :
          /\ lmc' = guiRun(lmc, delay, next)
          /\ last' = Call("run", lmc, inputValue, guiReturned(lmc, next), guiSent(lmc))
    /\ running' = (delay # 0)
    /\ UNCHANGED log

\* A tick of runAnimation: a step while RUNNING, and the timer ends when the
\* state is no longer RUNNING.
Tick(inputValue) ==
    /\ running
    /\ lmc.state # RUNNING => inputValue = undefined
    /\ takes(lmc, inputValue)
    /\ IF lmc.state = RUNNING
       THEN \E next \in {step(lmc, inputValue)} :
               /\ lmc' = guiStep(lmc, next)
               /\ last' = Call("tick", lmc, inputValue, guiReturned(lmc, next), guiSent(lmc))
       ELSE /\ lmc' = lmc
            /\ last' = Call("tick", lmc, inputValue, "none", <<>>)
    /\ running' = (lmc'.state = RUNNING)
    /\ UNCHANGED log

GuiReset ==
    /\ lmc' = guiReset(lmc)
    /\ running' = FALSE
    /\ last' = Call("reset", lmc, undefined, "none", <<>>)
    /\ UNCHANGED log

\* The Edit button, and the typing of another text while EDITING.
GuiLoad(program) ==
    /\ program = lmc.program \/ lmc.state = EDITING
    /\ lmc' = guiLoad(lmc, program)
    /\ running' = FALSE
    /\ last' = Call("load", lmc, undefined, "none", <<>>)
    /\ UNCHANGED log

\* A display of the editor's text: Editor.displayFormatted calls parse.  The
\* input of the call is the text.
Parse(text) ==
    /\ lmc.state = EDITING => text = lmc.program
    /\ lmc' = parse(lmc, text)
    /\ last' = Call("parse", lmc, text, "none", <<>>)
    /\ UNCHANGED <<log, running>>

GuiNext ==
    \/ \E inputValue \in GuiInboxReturns : GuiStep(inputValue)
    \/ \E delay \in Delays, inputValue \in GuiInboxReturns : GuiRun(delay, inputValue)
    \/ \E inputValue \in GuiInboxReturns : Tick(inputValue)
    \/ GuiReset
    \/ \E program \in GuiPrograms : GuiLoad(program)
    \/ \E text \in GuiPrograms : Parse(text)

GuiSpec == GuiInit /\ [][GuiNext]_vars

(***************************************************************************)
(* What the claims speak of: the instruction the last step() call          *)
(* executed, and the state before it.                                      *)
(***************************************************************************)
before == last.before
stepped == last.call = "step" /\ last.returned # "throw"
executes(opcode) ==
    stepped /\ ~isInvalid(decoded(before)) /\ decoded(before).opcode = opcode
at == before.programCounter
operand == fetched(before) % 100

\* The value a mailbox holds; one not yet created counts as holding 0.
valueAt(m, address) == IF address < length(m) THEN m.mailboxes[address + 1].value ELSE 0
sameMemory(m, n) == \A address \in 0 .. 99 : valueAt(m, address) = valueAt(n, address)

(***************************************************************************)
(* C1: in every reachable state the accumulator is in 0..999, the program  *)
(* counter in 0..99, and every existing mailbox holds a value in 0..999.   *)
(* Violated: load stores opcode + address of a label without wrapping, and *)
(* a label after 200 emitting lines has an address of 200 or more.         *)
(***************************************************************************)
C1_Ranges ==
    /\ lmc.accumulator \in 0 .. 999
    /\ lmc.programCounter \in 0 .. 99
    /\ \A a \in DOMAIN lmc.mailboxes : lmc.mailboxes[a].value \in 0 .. 999

(***************************************************************************)
(* C2: README.md's program, default options, the inbox returning 7 at its  *)
(* first call: the steps before the fourth return true and the fourth and  *)
(* later ones false; from the second step on mailbox 20 holds 7; the third *)
(* step, and no other, sends a value, 7, to the outbox; from the fourth    *)
(* step on the program counter is 3 and err is unset.                      *)
(***************************************************************************)
readmeRun ==
    /\ lmc.options = defaults
    /\ lmc.program = readme
    /\ last.call \in {"load", "step"}
    /\ log # <<>> => log[1].input = number(7)

C2_Readme ==
    readmeRun =>
        /\ \A i \in DOMAIN log :
              /\ log[i].returned = (IF i < 4 THEN "true" ELSE "false")
              /\ log[i].sent = (IF i = 3 THEN <<7>> ELSE <<>>)
        /\ Len(log) >= 2 => length(lmc) > 20 /\ valueAt(lmc, 20) = 7
        /\ Len(log) >= 4 => lmc.programCounter = 3 /\ lmc.err = noError

C2_Witness ==
    /\ readmeRun
    /\ Len(log) = 4
    /\ log[4].returned = "false"
    /\ valueAt(lmc, 20) = 7

C4_Sub ==
    executes(200) /\ ~before.isAccUndefined =>
        LET difference == before.accumulator - valueAt(before, operand)
        IN  /\ lmc.accumulator = IF difference < 0 THEN difference + 1000 ELSE difference
            /\ difference < 0 => lmc.isAccUndefined /\ lmc.flag
            /\ difference >= 0 => ~lmc.isAccUndefined /\ lmc.flag = before.flag

C4_Witness ==
    /\ executes(200) /\ ~before.isAccUndefined
    /\ before.accumulator = 0 /\ valueAt(before, operand) = 1
    /\ lmc.accumulator = 999 /\ lmc.flag
    /\ ~lmc.options.setFlagOnOverflow

(***************************************************************************)
(* C5: a step clears the flag, or makes the accumulator reliable again,    *)
(* only when it executes LDA or an INP that receives a value; those set    *)
(* the accumulator to the value loaded, clear the flag and make the        *)
(* accumulator reliable.                                                   *)
(***************************************************************************)
loads == executes(500) \/ (executes(901) /\ last.input # undefined)
loaded == IF executes(500) THEN valueAt(before, operand) ELSE last.input[1] % 1000

C5_OnlyLoadsClear ==
    /\ stepped /\ ((before.flag /\ ~lmc.flag) \/ (before.isAccUndefined /\ ~lmc.isAccUndefined))
          => loads
    /\ loads => lmc.accumulator = loaded /\ ~lmc.flag /\ ~lmc.isAccUndefined

C5_Witness ==
    /\ executes(500)
    /\ before.flag /\ before.isAccUndefined
    /\ ~lmc.flag /\ ~lmc.isAccUndefined

unreliable == "Accumulator does not have reliable value."
exceeded == "Program counter exceeded 99."
next == (at + 1) % 100

\* The step fell off mailbox 99 while forbidProgramCounterOverflow is enabled.
forbidden == at = 99 /\ before.options.forbidProgramCounterOverflow

(***************************************************************************)
(* C6 as stated: a step executing BRP sets the program counter to the      *)
(* operand when the flag is clear and otherwise advances to the next       *)
(* mailbox, whatever the accumulator and its reliability, and never raises *)
(* the unreliable-accumulator error.                                       *)
(***************************************************************************)
C6_Original ==
    executes(800) =>
        /\ lmc.programCounter = IF ~before.flag THEN operand ELSE next
        /\ lmc.err.msg.text # unreliable

(***************************************************************************)
(* C6 amended: as stated, except that a BRP in mailbox 99 whose branch is  *)
(* not taken, with forbidProgramCounterOverflow enabled, raises 'Program   *)
(* counter exceeded 99.' and leaves the program counter at 99.  In every   *)
(* other case the step raises no error.                                    *)
(***************************************************************************)
C6_Brp ==
    executes(800) =>
        IF ~before.flag
        THEN lmc.programCounter = operand /\ lmc.err = before.err
        ELSE IF forbidden
        THEN lmc.programCounter = at /\ lmc.err.msg.text = exceeded
        ELSE lmc.programCounter = next /\ lmc.err = before.err

\* A branch taken with an unreliable accumulator, under stopWhenUndefined.
C6_Witness ==
    /\ executes(800)
    /\ ~before.flag /\ before.isAccUndefined /\ before.options.stopWhenUndefined
    /\ lmc.programCounter = operand /\ operand # next
    /\ lmc.err = noError

(***************************************************************************)
(* C7 as stated: a step executing BRZ raises a run-time error without      *)
(* branching when stopWhenUndefined is enabled and the accumulator is      *)
(* unreliable; else it branches when the accumulator is 0 and the flag is  *)
(* clear or zeroNeedsClearedFlag is disabled; else it advances to the next *)
(* mailbox.                                                                *)
(***************************************************************************)
branchesOnZero ==
    before.accumulator = 0 /\ (~before.options.zeroNeedsClearedFlag \/ ~before.flag)

C8_Unreliable ==
    /\ \A opcode \in {100, 200, 300, 700, 902, 922} :
          executes(opcode) /\ undefinedUse(before) =>
              /\ lmc.err.msg.text = unreliable
              /\ lmc.accumulator = before.accumulator
              /\ lmc.flag = before.flag
              /\ sameMemory(before, lmc)
              /\ last.sent = <<>>
              /\ lmc.programCounter = at
    /\ \A opcode \in {0, 500, 600, 800, 901} :
          executes(opcode) => lmc.err.msg.text # unreliable
    /\ stepped /\ ~before.options.stopWhenUndefined => lmc.err.msg.text # unreliable

(***************************************************************************)
(* C9: a step executing INP, in any mailbox and under any options, when    *)
(* the inbox has no value raises no error, keeps program counter,          *)
(* accumulator, flag, reliability and mailbox values, and returns false;   *)
(* when the inbox returns v the accumulator becomes v mod 1000, the flag   *)
(* is cleared, the accumulator is reliable and the program counter         *)
(* advances by one.                                                        *)
(* Violated in mailbox 99 with forbidProgramCounterOverflow enabled: the   *)
(* HLT of the stall counts as an overflow.                                 *)
(***************************************************************************)
C9_Inp ==
    /\ executes(901) /\ last.input = undefined =>
          /\ lmc.err = before.err
          /\ lmc.programCounter = at
          /\ lmc.accumulator = before.accumulator
          /\ lmc.flag = before.flag
          /\ lmc.isAccUndefined = before.isAccUndefined
          /\ sameMemory(before, lmc)
          /\ last.returned = "false"
    /\ executes(901) /\ last.input # undefined =>
          /\ lmc.accumulator = last.input[1] % 1000
          /\ ~lmc.flag /\ ~lmc.isAccUndefined
          /\ lmc.programCounter = next

(***************************************************************************)
(* C10: a step executing HLT, in any mailbox and under any options, leaves *)
(* the program counter on the HLT's mailbox, raises no error and keeps     *)
(* accumulator, flag, reliability and mailbox values, so that further      *)
(* steps find the same state.                                              *)
(* Violated in mailbox 99 with forbidProgramCounterOverflow enabled: the   *)
(* HLT's decrement of the wrapped counter counts as an overflow.           *)
(***************************************************************************)
C10_Hlt ==
    executes(0) =>
        /\ lmc.programCounter = at
        /\ lmc.err = before.err
        /\ lmc.accumulator = before.accumulator
        /\ lmc.flag = before.flag
        /\ lmc.isAccUndefined = before.isAccUndefined
        /\ sameMemory(before, lmc)
        /\ last.returned = "false"

\* The step executed an instruction that has a method, other than HLT and BRA.
others == methods \ {0, 600}
branches ==
    \/ executes(600)
    \/ executes(700) /\ ~undefinedUse(before) /\ branchesOnZero
    \/ executes(800) /\ ~before.flag

\* The instruction read the accumulator while it was unreliable and forbidden.
fails == (\E opcode \in {100, 200, 300, 700, 902, 922} : executes(opcode)) /\ undefinedUse(before)
stalls == executes(901) /\ last.input = undefined

(***************************************************************************)
(* C11: with forbidProgramCounterOverflow enabled, a step that executes in *)
(* mailbox 99 an instruction other than HLT and BRA, and does not branch,  *)
(* ends with err set to 'Program counter exceeded 99.' and returns false,  *)
(* and the program counter is not 0.                                       *)
(* Violated by the instructions that end in HLT: an INP without input and  *)
(* an instruction failing on an unreliable accumulator raise the error     *)
(* from the HLT's decrement, and step() then returns true.                 *)
(***************************************************************************)
C11_Wraparound ==
    (\E opcode \in others : executes(opcode)) /\ forbidden /\ ~branches =>
        /\ lmc.err.msg.text = exceeded
        /\ last.returned = "false"
        /\ lmc.programCounter # 0

(***************************************************************************)
(* C12: with forbidProgramCounterOverflow enabled, a HLT in mailbox 99     *)
(* leaves the program counter at 99 and err unset, and a BRA n in mailbox  *)
(* 99 leaves the program counter at n and err unset.                       *)
(* Violated by HLT: its decrement of the wrapped counter is an overflow.   *)
(***************************************************************************)
C12_HltBra ==
    /\ executes(0) /\ forbidden =>
          lmc.programCounter = 99 /\ lmc.err = noError /\ last.returned = "false"
    /\ executes(600) /\ forbidden =>
          lmc.programCounter = operand /\ lmc.err = noError

(***************************************************************************)
(* C13: with forbidProgramCounterOverflow disabled, a step that executes   *)
(* in mailbox 99 an instruction that does not branch, halt, stall or fail  *)
(* raises no error, leaves the program counter at 0 and returns true.      *)
(***************************************************************************)
C13_Wraps ==
    /\ (\E opcode \in others : executes(opcode))
    /\ at = 99 /\ ~before.options.forbidProgramCounterOverflow
    /\ ~branches /\ ~stalls /\ ~fails
    => /\ lmc.err = before.err
       /\ lmc.programCounter = 0
       /\ last.returned = "true"

C13_Witness ==
    /\ executes(300) /\ at = 99 /\ ~before.options.forbidProgramCounterOverflow
    /\ before.options.stopWhenUndefined /\ ~before.isAccUndefined
    /\ lmc.programCounter = 0 /\ lmc.err = noError /\ last.returned = "true"
    /\ valueAt(lmc, operand) = before.accumulator /\ before.accumulator # 0

invalid == "Invalid instruction "
undefinedCodes == (400 .. 499) \cup {900} \cup (903 .. 921) \cup (923 .. 999)
definedCodes == {0} \cup (100 .. 399) \cup (500 .. 899) \cup {901, 902, 922}

(***************************************************************************)
(* C14: a step that fetches a code in 400..499, 900, 903..921 or 923..999  *)
(* ends with err 'Invalid instruction <code>' under every setting of the   *)
(* options and keeps accumulator, flag and mailbox values; a step that     *)
(* fetches 0, 100..399, 500..899, 901, 902 or 922 does not end with an     *)
(* invalid-instruction error.                                              *)
(* Violated in mailbox 99 with forbidProgramCounterOverflow enabled: the   *)
(* HLT inside error() counts as an overflow and the message is replaced.   *)
(***************************************************************************)
C14_Invalid ==
    /\ stepped /\ fetched(before) \in undefinedCodes =>
          /\ lmc.err.msg = Message(invalid, fetched(before))
          /\ lmc.accumulator = before.accumulator
          /\ lmc.flag = before.flag
          /\ sameMemory(fetch(before), lmc)
    /\ stepped /\ fetched(before) \in definedCodes => lmc.err.msg.text # invalid

(***************************************************************************)
(* C15: a step that fetches a code in 1..99 raises an error when           *)
(* strictOpcode is enabled, and when strictOpcode is disabled executes it  *)
(* as HLT: no error, the program counter stays on the mailbox, and the     *)
(* step returns false.                                                     *)
(* Violated with strictOpcode disabled: disassemble maps 1..99 to DAT,     *)
(* which has no method, so the step raises 'Invalid instruction'.          *)
(***************************************************************************)
C15_Sloppy ==
    stepped /\ fetched(before) \in 1 .. 99 =>
        IF before.options.strictOpcode
        THEN lmc.err # noError
        ELSE lmc.err = before.err /\ lmc.programCounter = at /\ last.returned = "false"

(***************************************************************************)
(* C16: step() returns false exactly when the instruction it executed is   *)
(* HLT, is an INP without input, or raised an error (invalid instruction,  *)
(* unreliable accumulator, program counter overflow); in every other case, *)
(* every taken and untaken branch included, it returns true.               *)
(* Violated by an error raised in mailbox 99 with                          *)
(* forbidProgramCounterOverflow enabled (returns true), and by a branch to *)
(* the mailbox of the branch itself (returns false).                       *)
(***************************************************************************)
raises ==
    \/ isInvalid(decoded(before))
    \/ fails
    \/ lmc.err # before.err

C16_Returns ==
    stepped => (last.returned = "false" <=> (executes(0) \/ stalls \/ raises))

(***************************************************************************)
(* C17: run() makes no further step() call once a step has executed HLT,   *)
(* raised an error, or stalled on an INP without input, wherever in memory *)
(* that happens.                                                           *)
(* Violated in mailbox 99 with forbidProgramCounterOverflow enabled: the   *)
(* step returns true and run() goes on from mailbox 98.                    *)
(***************************************************************************)
C17_RunStops ==
    stepped /\ (executes(0) \/ stalls \/ raises) => ~running

\* err holds a diagnostic that only a step sets.
isRunTime(err) == err.msg.text \in {invalid, unreliable, exceeded}

C19_Stopped ==
    stepped /\ isRunTime(before.err) =>
        /\ lmc.accumulator = before.accumulator
        /\ lmc.flag = before.flag
        /\ lmc.programCounter = at
        /\ sameMemory(before, lmc)
        /\ last.sent = <<>>

(***************************************************************************)
(* C20: after every load that succeeds, whatever was loaded and executed   *)
(* before, the accumulator is 0, the flag clear, the program counter 0,    *)
(* err unset, and the mailboxes are those assembled from the new program.  *)
(***************************************************************************)
C20_Load ==
    last.call = "load" /\ last.returned = "true" =>
        /\ lmc.accumulator = 0
        /\ ~lmc.flag
        /\ lmc.programCounter = 0
        /\ lmc.err = noError
        /\ lmc.mailboxes = image(lines(lmc.program)).mailboxes

\* A load after an INP or LDA was executed: the accumulator is still marked
\* reliable, which no load does.
C20_Witness ==
    /\ last.call = "load" /\ last.returned = "true"
    /\ ~lmc.isAccUndefined
    /\ lmc.program = readme
    /\ lmc.accumulator = 0 /\ length(lmc) = 4

(***************************************************************************)
(* LMC.regex on the text of a line.  A line of text is a sequence of       *)
(* words separated by white space: a name (\w+ not starting with a digit), *)
(* a number (digits only), or a mark (a word that starts with a character  *)
(* that is neither white space nor \w, the start of a comment).  Every     *)
(* part of the regex after ^ is optional, so the match is the greedy one.  *)
(***************************************************************************)
Name(text) == [kind |-> "name", text |-> text, digits |-> <<>>]
Numeral(digits) == [kind |-> "number", text |-> "", digits |-> digits]
Mark(text) == [kind |-> "mark", text |-> text, digits |-> <<>>]
end == [kind |-> "end", text |-> "", digits |-> <<>>]

\* reReserved, reLabel, reSimpleMnemonic, reMnemonic, reInstruction, reMailbox
isReserved(word) == word.kind = "name" /\ hasMnemonic(toUpperCase(word.text))
isLabel(word) == word.kind = "name" /\ ~isReserved(word)
isSimpleMnemonic(word) == isReserved(word) /\ mnemonics(toUpperCase(word.text)).arg <= 0
isMnemonic(word) == isReserved(word) /\ mnemonics(toUpperCase(word.text)).arg > 0
isInstruction(word) == word.kind = "number" /\ Len(word.digits) \in 1 .. 3
\* A number of any length taken as a mailbox number.
isMailboxOfAnyLength(word) == word.kind = "number"
isMailbox(word) == word.kind = "number" /\ Len(word.digits) \in 1 .. 2

match(words) ==
    LET hasLabel == words # <<>> /\ isLabel(words[1])
        rest == IF hasLabel THEN Tail(words) ELSE words
        word(i) == IF i <= Len(rest) THEN rest[i] ELSE end
        isArgument(w) == isInstruction(w) \/ isLabel(w)
        withDAT == toUpperCase(word(1).text) = "DAT" /\ isArgument(word(2))
        bare == isArgument(word(1))
        simple == ~withDAT /\ ~bare /\ isSimpleMnemonic(word(1))
        full == isMnemonic(word(1))
        taken == full /\ (isMailbox(word(2)) \/ isLabel(word(2)))
        argument == IF withDAT \/ taken THEN word(2) ELSE IF bare THEN word(1) ELSE end
        consumed == IF withDAT \/ taken THEN 2
                    ELSE IF full THEN (IF word(2) = end THEN 1 ELSE 2)
                    ELSE IF bare \/ simple THEN 1
                    ELSE 0
    IN  [label |-> IF hasLabel THEN words[1].text ELSE "",
         mnemonic |-> IF withDAT \/ simple \/ full THEN word(1).text ELSE "",
         digits |-> argument.digits,
         ref |-> argument.text,
         badArgument |-> IF full /\ ~taken
                         THEN (IF word(2) = end THEN "missing" ELSE "invalid")
                         ELSE "absent",
         bad |-> word(consumed + 1).kind \in {"name", "number"}]

\* program.match(/^.*/gm) and the regex on every line.
tokenize(text) == [n \in DOMAIN text |-> match(text[n])]

(***************************************************************************)
(* AsmSpec: load() of every text of up to MaxLines lines taken from Menu,  *)
(* into a new machine.                                                     *)
(***************************************************************************)
MaxLines == 3

Menu == {
    <<>>,
    << Mark("#") >>,
    << Name("loop") >>,
    << Name("loop"), Name("DAT"), Numeral(<<7>>) >>,
    << Name("LOOP"), Name("OUT") >>,
    << Name("LDA"), Name("Loop") >>,
    << Name("BRA"), Name("nowhere") >>,
    << Name("ADD") >>,
    << Name("HLT"), Numeral(<<5>>) >>,
    << Name("ADD"), Numeral(<<1, 0, 0>>) >>,
    << Name("DAT"), Numeral(<<1, 0, 0, 0>>) >>,
    << Numeral(<<1, 0, 0, 0>>) >>,
    << Name("sta"), Numeral(<<9, 9>>) >>,
    << Numeral(<<9, 0, 1>>) >>,
    << Name("DAT") >>,
    << Name("INP"), Mark("//") >> }

\* One line for each mnemonic, with a number or a label where it takes one,
\* and the values written with and without DAT.
withArgument == {instructionList[i].mnemonic : i \in {j \in DOMAIN instructionList : instructionList[j].arg > 0}}
withoutArgument == {instructionList[i].mnemonic : i \in {j \in DOMAIN instructionList : instructionList[j].arg <= 0}}
Mailboxes == {<<0>>, <<7>>, <<9, 9>>}
Values == {<<0>>, <<7>>, <<9, 0, 1>>, <<9, 9, 9>>}
inLowerCase == {"sta", "brz"}
Encodings ==
    {<< <<Name(m), Numeral(d)>> >> : m \in withArgument \cup inLowerCase, d \in Mailboxes}
    \cup {<< <<Name(m), Name("Loop")>>, <<Name("DAT")>>, <<Name("loop"), Name("DAT"), Numeral(<<7>>)>> >> :
              m \in withArgument \cup inLowerCase}
    \cup {<< <<Name("loop"), Name(m), Name("LOOP")>> >> : m \in withArgument}
    \cup {<< <<Name(m)>> >> : m \in withoutArgument \cup {"cob", "inp", "dat"}}
    \cup {<< <<Name("DAT"), Numeral(d)>> >> : d \in Values}
    \cup {<< <<Name("dat"), Numeral(d)>> >> : d \in Values}
    \cup {<< <<Numeral(d)>> >> : d \in Values}

Texts == UNION {[1 .. n -> Menu] : n \in 1 .. MaxLines} \cup Encodings

AsmOptions == {defaults, [defaults EXCEPT !.strictOpcode = FALSE]}

AsmInit ==
    /\ \E options \in AsmOptions : lmc = constructor(options)
    /\ last = Call("new", lmc, undefined, "none", <<>>)
    /\ log = <<>>
    /\ running = FALSE

AsmLoad(text) ==
    /\ isFresh(lmc)
    /\ lmc' = load(lmc, text, image(tokenize(text)))
    /\ last' = Call("load", lmc', undefined,
                    IF lmc'.err = noError THEN "true" ELSE "false", <<>>)
    /\ UNCHANGED <<log, running>>

AsmNext == \E text \in Texts : AsmLoad(text)

AsmSpec == AsmInit /\ [][AsmNext]_vars

\* The text last loaded, and what is wrong with its lines.
loadedText == lmc.program
parsed(n) == match(loadedText[n])
defines(n, name) == parsed(n).label # "" /\ toUpperCase(parsed(n).label) = toUpperCase(name)
isDuplicate(n) == \E k \in 1 .. (n - 1) : defines(k, parsed(n).label)
isUndefinedReference(n) ==
    parsed(n).ref # "" /\ ~\E k \in DOMAIN loadedText : defines(k, parsed(n).ref)
isMalformed(n) == parsed(n).bad \/ parsed(n).badArgument # "absent"
isErroneous(n) == isMalformed(n) \/ isDuplicate(n) \/ isUndefinedReference(n)
erroneousLines == {n \in DOMAIN loadedText : isErroneous(n)}
loadFailed == last.call = "load" /\ last.returned = "false"
loadSucceeded == last.call = "load" /\ last.returned = "true"

(***************************************************************************)
(* C21: when load reports an error, no mailbox assembled from the failing  *)
(* text is in memory.                                                      *)
(* Violated: load fills a mailbox for every line that got an address and   *)
(* only then looks for a bad line.                                         *)
(***************************************************************************)
C21_NoImage ==
    loadFailed => lmc.mailboxes = <<>>

emitting(n) == parsed(n).mnemonic # "" \/ parsed(n).digits # <<>> \/ parsed(n).ref # ""
emitted == {n \in DOMAIN loadedText : emitting(n)}
addressOf(n) == Cardinality({k \in emitted : k < n})
stored(n) == lmc.mailboxes[addressOf(n) + 1]

\* The opcodes of the mnemonics, aliases included.
Encoding(name) ==
    CASE name = "ADD" -> 100
      [] name = "SUB" -> 200
      [] name \in {"STA", "STO"} -> 300
      [] name = "LDA" -> 500
      [] name \in {"BRA", "BR"} -> 600
      [] name = "BRZ" -> 700
      [] name = "BRP" -> 800
      [] name \in {"HLT", "COB"} -> 0
      [] name \in {"INP", "IN"} -> 901
      [] name = "OUT" -> 902
      [] name = "OTC" -> 922
      [] name \in {"DAT", ""} -> 0
opcodeOf(n) == Encoding(toUpperCase(parsed(n).mnemonic))
takesOperand(n) == toUpperCase(parsed(n).mnemonic) \in {"ADD", "SUB", "STA", "STO", "LDA", "BRA", "BR", "BRZ", "BRP"}
takesNothing(n) == toUpperCase(parsed(n).mnemonic) \in {"HLT", "COB", "INP", "IN", "OUT", "OTC"}
isData(n) == toUpperCase(parsed(n).mnemonic) \in {"DAT", ""}

C24_Duplicate ==
    last.call = "load" =>
        \A n \in DOMAIN loadedText :
            isDuplicate(n) =>
                /\ last.returned = "false"
                /\ (\A k \in erroneousLines : n <= k) =>
                      /\ lmc.err.lineNo = n - 1
                      /\ lmc.err.msg.text = "cannot be defined twice"

C24_Witness ==
    /\ loadFailed
    /\ Len(loadedText) = 2
    /\ parsed(1).label = "loop" /\ emitting(1)
    /\ parsed(2).label = "LOOP"
    /\ lmc.err.lineNo = 1
    /\ lmc.err.msg.text = "cannot be defined twice"

body(n) ==
    IF loadedText[n] # <<>> /\ isLabel(loadedText[n][1])
    THEN Tail(loadedText[n]) ELSE loadedText[n]
first(n) == IF body(n) = <<>> THEN end ELSE body(n)[1]
second(n) == IF Len(body(n)) < 2 THEN end ELSE body(n)[2]
lacksOperand(n) == isMnemonic(first(n)) /\ second(n) = end
hasOperand(n) ==
    /\ isSimpleMnemonic(first(n)) /\ toUpperCase(first(n).text) # "DAT"
    /\ second(n).kind \in {"name", "number"}
operandTooLarge(n) ==
    isMnemonic(first(n)) /\ second(n).kind = "number" /\ Number(second(n).digits) > 99
valueTooLarge(n) ==
    \/ first(n).kind = "number" /\ Number(first(n).digits) > 999
    \/ /\ toUpperCase(first(n).text) = "DAT"
       /\ second(n).kind = "number" /\ Number(second(n).digits) > 999
isRejected(n) == lacksOperand(n) \/ hasOperand(n) \/ operandTooLarge(n) \/ valueTooLarge(n)

(***************************************************************************)
(* C26: load fails when a line has a mnemonic that takes an operand and no *)
(* operand, a mnemonic that takes none and an operand, a numeric operand   *)
(* above 99, or a value above 999 with or without DAT; with no erroneous   *)
(* line before it, the diagnostic is on that line and names the fault.     *)
(***************************************************************************)
C26_Rejects ==
    last.call = "load" =>
        \A n \in DOMAIN loadedText :
            isRejected(n) =>
                /\ last.returned = "false"
                /\ (\A k \in erroneousLines : n <= k) /\ ~isDuplicate(n) =>
                      /\ lmc.err.lineNo = n - 1
                      /\ lacksOperand(n) => lmc.err.msg.text = "Missing argument"
                      /\ operandTooLarge(n) => lmc.err.msg.text = "Invalid argument"
                      /\ hasOperand(n) \/ valueTooLarge(n) => lmc.err.msg.text = "Unexpected"

C26_Witness ==
    /\ loadFailed
    /\ Len(loadedText) = 3
    /\ ~isErroneous(1)
    /\ valueTooLarge(2)
    /\ lacksOperand(3)
    /\ lmc.err.lineNo = 1
    /\ lmc.err.msg.text = "Unexpected"

(***************************************************************************)
(* RoundSpec: disassemble(value, isCode) for every value and both          *)
(* classifications, then the line it gives, mnemonic and argument,         *)
(* matched and assembled again.                                            *)
(***************************************************************************)
\* String(n): the digits of a number.
RECURSIVE toString(_)
toString(n) == IF n < 10 THEN <<n>> ELSE Append(toString(n \div 10), n % 10)

\* The words of mnemonic + " " + argumentLabel; no argument gives "".
written(syntax) ==
    IF syntax.argument = null THEN << Name(syntax.mnemonic) >>
    ELSE << Name(syntax.mnemonic), Numeral(toString(syntax.argument)) >>

RoundInit ==
    /\ lmc = constructor(defaults)
    /\ last = Call("new", lmc, undefined, "none", <<>>)
    /\ log = <<>>
    /\ running = FALSE

Disassemble(value, isCode) ==
    /\ last.call = "new"
    /\ last' = Call("disassemble", lmc, [value |-> value, isCode |-> isCode], "none",
                    << disassemble(lmc.options, value, isCode) >>)
    /\ UNCHANGED <<lmc, log, running>>

Assemble ==
    /\ last.call = "disassemble"
    /\ LET line == match(written(last.sent[1]))
       IN  last' = Call("assemble", lmc, last.input, "none",
                        << line, assemble(lmc.symbolTable, line) >>)
    /\ UNCHANGED <<lmc, log, running>>

RoundNext ==
    \/ \E value \in 0 .. (ValueLimit - 1), isCode \in BOOLEAN : Disassemble(value, isCode)
    \/ Assemble

RoundSpec == RoundInit /\ [][RoundNext]_vars

(***************************************************************************)
(* C27: for every value 0..999, as code and as data, the mnemonic and the  *)
(* argument that disassemble gives form a line without fault, and          *)
(* assembling that line gives the value again.                             *)
(***************************************************************************)
C27_RoundTrip ==
    last.call = "assemble" =>
        /\ ~last.sent[1].bad
        /\ last.sent[1].badArgument = "absent"
        /\ last.sent[2].value = last.input.value

C27_Witness ==
    /\ last.call = "assemble"
    /\ last.input = [value |-> 399, isCode |-> TRUE]
    /\ last.sent[1].mnemonic = "STA"
    /\ last.sent[1].digits = <<9, 9>>
    /\ last.sent[2].value = 399

(***************************************************************************)
(* ArithSpec: INP / SUB 4 / ADD 4 / HLT / DAT m, loaded with               *)
(* stopWhenUndefined disabled and stepped as run() does, while step()      *)
(* returns true, for every input 0..999; log has the instruction and the   *)
(* accumulator before every step.                                          *)
(***************************************************************************)
Subtrahends == {0, 1, 7, 500, 998, 999}

subAdd(m) ==
    << << Name("INP") >>,
       << Name("SUB"), Numeral(<<4>>) >>,
       << Name("ADD"), Numeral(<<4>>) >>,
       << Name("HLT") >>,
       << Name("DAT"), Numeral(toString(m)) >> >>

ArithOptions ==
    {options \in Options :
        ~options.stopWhenUndefined /\ options.strictOpcode /\ options.zeroNeedsClearedFlag}

ArithInit ==
    /\ \E options \in ArithOptions : lmc = constructor(options)
    /\ last = Call("new", lmc, undefined, "none", <<>>)
    /\ log = <<>>
    /\ running = FALSE

ArithLoad(m) ==
    /\ isFresh(lmc)
    /\ lmc' = load(lmc, subAdd(m), image(tokenize(subAdd(m))))
    /\ last' = Call("load", lmc', undefined,
                    IF lmc'.err = noError THEN "true" ELSE "false", <<>>)
    /\ log' = <<>>
    /\ UNCHANGED running

ArithStep(inputValue) ==
    /\ last.call # "new" /\ last.returned = "true"
    /\ Stepping(inputValue)
    /\ log' = Append(log, [instruction |-> fetched(lmc), accumulator |-> lmc.accumulator])
    /\ UNCHANGED running

ArithNext ==
    \/ \E m \in Subtrahends : ArithLoad(m)
    \/ readsInbox(lmc) /\ \E value \in 0 .. (ValueLimit - 1) : ArithStep(number(value))
    \/ ArithStep(undefined)

ArithSpec == ArithInit /\ [][ArithNext]_vars

(***************************************************************************)
(* C28: with stopWhenUndefined disabled, after a step that executes SUB m  *)
(* and the next step that executes ADD m, on the same mailbox, the         *)
(* accumulator is what it was before the SUB, and no error is raised.      *)
(***************************************************************************)
C28_Restores ==
    /\ Len(log) >= 2
    /\ executes(100)
    /\ log[Len(log)].instruction = 100 + operand
    /\ log[Len(log) - 1].instruction = 200 + operand
    => /\ lmc.accumulator = log[Len(log) - 1].accumulator
       /\ lmc.err = noError

\* The SUB wraps around below 0.
C28_Witness ==
    /\ Len(log) = 3
    /\ executes(100)
    /\ log[2] = [instruction |-> 204, accumulator |-> 1]
    /\ log[3] = [instruction |-> 104, accumulator |-> 2]
    /\ valueAt(lmc, 4) = 999
    /\ lmc.accumulator = 1
    /\ lmc.flag

(***************************************************************************)
(* ModSpec: LMC.intmod(val, end) for the integers val from -MaxValue to    *)
(* MaxValue and the two ends in use, 1000 for values and 100 for           *)
(* addresses.                                                              *)
(***************************************************************************)
MaxValue == 2500

Ends == {ValueLimit, MailboxCount}

Intmod(val, n) ==
    /\ last.call = "new"
    /\ last' = Call("intmod", lmc, <<val, n>>, "none", << intmod(val, n) >>)
    /\ UNCHANGED <<lmc, log, running>>

ModNext == \E val \in (-MaxValue) .. MaxValue, n \in Ends : Intmod(val, n)

ModSpec == RoundInit /\ [][ModNext]_vars

(***************************************************************************)
(* C29: intmod(v, 1000) is in 0..999 and intmod(v, 100) in 0..99, for v    *)
(* negative, zero, and beyond the limit, and intmod(v, n) differs from v   *)
(* by a multiple of n.                                                     *)
(***************************************************************************)
C29_Intmod ==
    last.call = "intmod" =>
        LET val == last.input[1]
            n == last.input[2]
            result == last.sent[1]
        IN  /\ result \in 0 .. (n - 1)
            /\ \E k \in (-MaxValue) .. MaxValue : result = val + k * n

C29_Witness ==
    /\ last.call = "intmod"
    /\ last.input = <<-1001, 1000>>
    /\ last.sent = <<999>>

\* The state before the last step with the other value of the flag, as the
\* flag setter gives it, and what the same step() call makes of it.
flagged == [before EXCEPT !.flag = ~@]
outcome(m) == [programCounter |-> m.programCounter, err |-> m.err]
sameOutcome == outcome(step(flagged, last.input)) = outcome(lmc)
flagDecides ==
    /\ before.options.zeroNeedsClearedFlag
    /\ before.accumulator = 0
    /\ ~undefinedUse(before)

current(m) == m.mailboxes[m.programCounter + 1]
isDone(m) ==
    \/ m.err # noError
    \/ m.programCounter >= length(m)
    \/ disassemble(m.options, current(m).value, current(m).isCode).isSloppy

\* The mailbox at the program counter exists and holds code with this opcode.
pointsAt(opcodes) ==
    /\ lmc.programCounter < length(lmc)
    /\ current(lmc).isCode
    /\ disassemble(lmc.options, current(lmc).value, TRUE).opcode \in opcodes

(***************************************************************************)
(* C31: isDone() is truthy when err is set and when the mailbox at the     *)
(* program counter holds an instruction with opcode 0 (HLT); it is falsy   *)
(* when there is no error and the program counter is on an executable      *)
(* instruction other than HLT.                                             *)
(* Violated: with no error and HLT at the program counter isDone() is      *)
(* false; nothing in it looks at the opcode.                               *)
(***************************************************************************)
C31_IsDone ==
    /\ lmc.err # noError => isDone(lmc)
    /\ pointsAt({0}) => isDone(lmc)
    /\ lmc.err = noError /\ pointsAt(methods \ {0}) => ~isDone(lmc)

(***************************************************************************)
(* C32: a step executing STA with a usable accumulator stores the          *)
(* accumulator in the mailbox of its operand and changes no other mailbox  *)
(* value, nor the accumulator or the flag; a step executing anything else  *)
(* changes no mailbox value, a mailbox not yet created holding 0.          *)
(* Violated: executable() on a mailbox not yet marked as code assigns its  *)
(* value again through the setter, which wraps the 1000 that load can      *)
(* store to 0.                                                             *)
(***************************************************************************)
C32_Frame ==
    /\ executes(300) /\ ~undefinedUse(before) =>
          /\ valueAt(lmc, operand) = before.accumulator
          /\ \A address \in (0 .. 99) \ {operand} :
                valueAt(lmc, address) = valueAt(before, address)
          /\ lmc.accumulator = before.accumulator
          /\ lmc.flag = before.flag
    /\ stepped /\ ~(executes(300) /\ ~undefinedUse(before)) => sameMemory(lmc, before)

(***************************************************************************)
(* C33: after a step that raises a run-time error the program counter is   *)
(* the address of the instruction the step fetched, and err.lineNo the     *)
(* line of that instruction's mailbox.                                     *)
(* Violated in mailbox 99 with forbidProgramCounterOverflow enabled: the   *)
(* error of the instruction steps the program counter back to 99, and the  *)
(* overflow error that follows steps it back once more, to 98.             *)
(***************************************************************************)
C33_Location ==
    stepped /\ raises =>
        /\ lmc.programCounter = at
        /\ lmc.err.lineNo = fetch(before).mailboxes[at + 1].lineNo

(***************************************************************************)
(* C34: in every state reached by load, step, run and reset, under every   *)
(* option setting, a set flag comes with an unreliable accumulator; so a   *)
(* step executing BRZ with the flag set while stopWhenUndefined is enabled *)
(* raises an error before its test of the accumulator.                     *)
(***************************************************************************)
C34_FlagUnreliable ==
    /\ lmc.flag => lmc.isAccUndefined
    /\ executes(700) /\ before.options.stopWhenUndefined /\ before.flag =>
          /\ undefinedUse(before)
          /\ lmc.err # noError
          /\ lmc.programCounter # operand

C34_Witness ==
    /\ executes(700)
    /\ before.options.stopWhenUndefined
    /\ before.flag /\ before.isAccUndefined
    /\ before.accumulator = 0
    /\ lmc.flag
    /\ lmc.err.msg.text = unreliable
    /\ lmc.programCounter = at

(***************************************************************************)
(* C35: after a load the machine is in the state in which a new machine    *)
(* with the same options is after loading the same program, whatever was   *)
(* loaded, stepped or reset before, so that the steps that follow give the *)
(* same results, outputs, errors and registers.  programCounterOverflowed, *)
(* which the first fetch assigns before anything reads it, is left aside.  *)
(* Violated: load does not touch isAccUndefined, which is true in a new    *)
(* machine and false once an LDA or INP has been executed.                 *)
(***************************************************************************)
settled(m) == [m EXCEPT !.programCounterOverflowed = FALSE]

C35_Independent ==
    last.call = "load" =>
        settled(lmc) = settled(load(constructor(lmc.options), lmc.program, images[lmc.program]))

(***************************************************************************)
(* C36: a step() call on a machine whose last load succeeded, after the    *)
(* load, a reset or other steps, completes without throwing.               *)
(* Violated: a text without any mnemonic or argument loads successfully    *)
(* with no mailbox at all, and step() fetches this.mailboxes[0] from the   *)
(* Proxy, which throws for an address that does not exist.                 *)
(***************************************************************************)
C36_NoThrow ==
    /\ last.call = "step"
    /\ ~isFresh(before)
    /\ images[before.program].err = noError
    => last.returned # "throw"

\* The lines of a program that emit a mailbox, and the first line in excess
\* of the 100 mailboxes; computed once for every program.
emittingLines(program) ==
    LET text == lines(program) IN {n \in DOMAIN text : emits(text[n])}
sizes == [program \in Programs |-> Cardinality(emittingLines(program))]
isTooLarge(program) == sizes[program] > MailboxCount
excess ==
    [program \in {p \in Programs : isTooLarge(p)} |->
        LET emitters == emittingLines(program)
        IN  CHOOSE n \in emitters : Cardinality({k \in emitters : k < n}) = MailboxCount]
firstExcess(program) == excess[program]

(***************************************************************************)
(* C37: no state has more than 100 mailboxes.  A program with more than    *)
(* 100 lines that emit a mailbox fails to load, with 'Program is too large *)
(* to fit in the 100 mailboxes.' on the first line in excess, and gets the *)
(* 100 mailboxes of the lines before it and none for the others; a step    *)
(* creates mailboxes up to address 99 only.                                *)
(***************************************************************************)
C37_Hundred ==
    /\ length(lmc) <= MailboxCount
    /\ last.call = "load" /\ isTooLarge(lmc.program) =>
          /\ last.returned = "false"
          /\ lmc.err = [lineNo |-> firstExcess(lmc.program) - 1, msg |-> tooLarge]
          /\ length(lmc) = MailboxCount
          /\ \A address \in 0 .. (MailboxCount - 1) :
                lmc.mailboxes[address + 1].lineNo < firstExcess(lmc.program) - 1

C37_Witness ==
    /\ last.call = "load"
    /\ lmc.program = far
    /\ sizes[far] = 201
    /\ last.returned = "false"
    /\ lmc.err.msg = tooLarge
    /\ lmc.err.lineNo = 100
    /\ length(lmc) = 100


\* Whether the last call was a direct LmcGui.step(), and the machine that one
\* super.step() makes of the machine before it, in the state the call left.
guiStepped == last.call = "step"
oneInstruction == setState(step(before, last.input), lmc.state)

(***************************************************************************)
(* C38: the state is always RUNNING, PAUSED or EDITING.  A LmcGui.step()   *)
(* call with err unset and the state RUNNING or PAUSED executes exactly    *)
(* one instruction: the machine is the one a single super.step() makes.    *)
(* With err set the machine is left as it was; with err unset and the      *)
(* state EDITING only the state changes, to RUNNING.  When the step that   *)
(* was executed, by step(), run(delay) or a tick of the timer, returned    *)
(* false the state is PAUSED.                                              *)
(* Violated: on a program without any mailbox super.step() throws on the   *)
(* fetch, so no instruction is executed and the state stays RUNNING.       *)
(***************************************************************************)
C38_GuiStep ==
    /\ lmc.state \in {RUNNING, PAUSED, EDITING}
    /\ guiStepped =>
          /\ before.err = noError /\ before.state \in {RUNNING, PAUSED}
             => last.returned # "throw" /\ lmc = oneInstruction
          /\ before.err # noError => lmc = before
          /\ before.err = noError /\ before.state = EDITING => lmc = setState(before, RUNNING)
    /\ last.returned = "false" => lmc.state = PAUSED

\* Whether the last call was a formatting pass of the editor outside EDITING.
formatted == last.call = "parse" /\ before.state \in {RUNNING, PAUSED}

(***************************************************************************)
(* C39: LmcGui.parse assembles the text only while the state is EDITING.   *)
(* A formatting pass in the state RUNNING or PAUSED, on any text and after *)
(* any number of earlier passes, leaves the accumulator, the flag, the     *)
(* program counter, err and every mailbox as they were, and the rest of    *)
(* the machine with them.                                                  *)
(***************************************************************************)
C39_ParseFrame ==
    formatted =>
        /\ lmc.accumulator = before.accumulator
        /\ lmc.flag = before.flag
        /\ lmc.programCounter = before.programCounter
        /\ lmc.err = before.err
        /\ lmc.mailboxes = before.mailboxes
        /\ lmc = before

\* A pass over another text than the program, on a paused machine that has
\* executed instructions and stored a value.
C39_Witness ==
    /\ formatted
    /\ before.state = PAUSED
    /\ last.input # before.program
    /\ before.programCounter > 0
    /\ before.accumulator # 0
    /\ before.mailboxes # images[before.program].mailboxes
    /\ lmc = before

=========================================================================
